---- MODULE Spec2Model ----
(***************************************************************************)
(* The centroid manipulator of the SRT editor (ctrl::srt::CentroidMode):   *)
(* its interaction state, updateCursor, moveCentroid and pushEventTarget,  *)
(* together with the collaborators it drives: the command stack, the       *)
(* KeyOwner matrices and the notification bus.                             *)
(*                                                                         *)
(* Geometry is exact integer arithmetic.  A matrix is a uniform scale n/d  *)
(* followed by a translation t; a scale of 0 is the singular case.         *)
(* Lengths are compared through their squares.                             *)
(***************************************************************************)
EXTENDS Integers, Sequences, FiniteSets, TLC

VARIABLES
    mFocusing,      \* CentroidMode::mFocusing
    mMoving,        \* CentroidMode::mMoving
    mBaseVec,       \* CentroidMode::mBaseVec
    mBaseCenter,    \* CentroidMode::mBaseCenter
    mCommandRef,    \* CentroidMode::mCommandRef (Null or the id of a command)
    keyOwner,       \* KeyOwner: [mtx, locSRMtx, locMtx]
    node,           \* the target ObjectNode: its key maps and children
    cmdStack,       \* cmnd::Stack: the undo entries, top last
    modifiableCmd,  \* cmnd::Stack: the command it reports modifiable, or Null
    redoIds,        \* cmnd::Stack: undone commands, still alive
    nextId,         \* the identity the next constructed command gets
    idle,           \* the inputs of the latest call when it carried no event
    out,            \* the latest updateCursor call: its inputs, return value and effects
    gesture         \* history of the calls since the latest press

vars == <<mFocusing, mMoving, mBaseVec, mBaseCenter, mCommandRef, keyOwner, node,
          cmdStack, modifiableCmd, redoIds, nextId, idle, out, gesture>>

manipVars == <<mFocusing, mMoving, mBaseVec, mBaseCenter, mCommandRef>>
stackVars == <<cmdStack, modifiableCmd, redoIds, nextId>>

----------------------------------------------------------------------------
(* Bounds and constants *)

\* commands constructed in one run
MaxCmds == 2

\* file-scope constant of srt_CentroidMode.cpp
kCrossRadius == 30

\* core::Constant::transMax(), transMin() is its negation
transMax == 30

transMin == 0 - transMax

Null == 0

----------------------------------------------------------------------------
(* Vectors and matrices *)

VAdd(a, b) == <<a[1] + b[1], a[2] + b[2]>>

VSub(a, b) == <<a[1] - b[1], a[2] - b[2]>>

LengthSq(a) == a[1] * a[1] + a[2] * a[2]

Origin == <<0, 0>>

Mat(n, d, t) == [n |-> n, d |-> d, t |-> t]

Identity == Mat(1, 1, Origin)

\* QMatrix4x4 * QVector3D
MapVec(M, v) == <<(M.n * v[1]) \div M.d + M.t[1], (M.n * v[2]) \div M.d + M.t[2]>>

\* QMatrix4x4 * QMatrix4x4
MatMul(A, B) == Mat(A.n * B.n, A.d * B.d, MapVec(A, B.t))

Sgn(x) == IF x < 0 THEN 0 - 1 ELSE 1

Abs(x) == IF x < 0 THEN 0 - x ELSE x

\* QMatrix4x4::inverted(bool*): the identity and false for a singular matrix
inverted(M) ==
    IF M.n = 0
    THEN [ok |-> FALSE, mtx |-> Identity]
    ELSE [ok |-> TRUE,
          mtx |-> Mat(M.d * Sgn(M.n), Abs(M.n),
                      <<(0 - M.d * M.t[1]) \div M.n, (0 - M.d * M.t[2]) \div M.n>>)]

xc_clamp(v, lo, hi) == IF v < lo THEN lo ELSE IF v > hi THEN hi ELSE v

----------------------------------------------------------------------------
(* Inputs *)

\* KeyOwner postures: parent matrix, local scale/rotation, full local matrix
KeyOwnerStates ==
    { [mtx |-> Identity, locSRMtx |-> Identity, locMtx |-> Identity],
      [mtx |-> Identity, locSRMtx |-> Mat(0, 1, Origin),
       locMtx |-> Mat(0, 1, <<90, 0 - 90>>)],
      [mtx |-> Mat(1, 1, <<10, 0>>), locSRMtx |-> Mat(1, 2, Origin),
       locMtx |-> Mat(1, 2, <<20, 0>>)] }

\* a camera (the factor of toScreenLength) and a cursor position: on the
\* cross radius of a handle at the origin, the same seen at twice the zoom,
\* and far from the handles of the invertible postures (on the handle of the
\* singular one)
Views == { <<1, <<18, 24>> >>, <<2, <<18, 24>> >>, <<1, <<90, 0 - 90>> >> }

\* AbstractCursor: the three event predicates, at most one true in a call
CursorEvents ==
    { [press |-> FALSE, drag |-> FALSE, release |-> FALSE],
      [press |-> TRUE, drag |-> FALSE, release |-> FALSE],
      [press |-> FALSE, drag |-> TRUE, release |-> FALSE],
      [press |-> FALSE, drag |-> FALSE, release |-> TRUE] }

NoEvent == [press |-> FALSE, drag |-> FALSE, release |-> FALSE]

\* no event-free call to compare the next call with
NoIdle == [valid |-> FALSE, cam |-> 1, pos |-> Origin, ko |-> Identity, again |-> FALSE]

\* no call has been made since the latest step of the rest of the editor
NoOut ==
    [called |-> FALSE, ev |-> NoEvent, cam |-> 1, pos |-> Origin, ret |-> FALSE, trace |-> << >>]

\* a call: its inputs, its return value and the calls it made, in order
Called(cam, curPos, ev, ret, trace) ==
    [called |-> TRUE, ev |-> ev, cam |-> cam, pos |-> curPos, ret |-> ret, trace |-> trace]

\* the node the manipulator is bound to: a folder with two children
TargetNode ==
    [canHoldChild |-> TRUE, srt |-> {0, 5, 9}, image |-> {},
     children |-> << {0, 1, 2}, {3, 4, 7} >>]

----------------------------------------------------------------------------
(* CentroidMode::getWorldCentroidPos *)

getWorldCentroidPos(ko) == MapVec(MatMul(ko.mtx, ko.locMtx), Origin)

withinCrossRadiusStrict(cam, center, curPos) ==
    cam * cam * LengthSq(VSub(center, curPos)) < kCrossRadius * kCrossRadius

\* aCamera.toScreenLength((center - curPos).length()) <= kCrossRadius
withinCrossRadius(cam, center, curPos) ==
    cam * cam * LengthSq(VSub(center, curPos)) <= kCrossRadius * kCrossRadius

----------------------------------------------------------------------------
(* cmnd::Stack *)

\* a command on the stack: the CentroidMover of a "move centroid" macro, or
\* an edit made elsewhere in the editor
Command(id, kind, from, to) == [id |-> id, kind |-> kind, from |-> from, to |-> to]

OnStack(cmds, id) == \E i \in 1..Len(cmds) : cmds[i].id = id

\* a command that has not been destroyed: on the undo stack or in the redo list
Live(cmds, redo, id) == OnStack(cmds, id) \/ id \in redo

\* Stack::isModifiable: the command is the most recent entry and nothing has
\* superseded it since it was pushed
isModifiable(cmds, modifiable, ref) ==
    /\ ref # Null
    /\ modifiable = ref
    /\ Len(cmds) > 0
    /\ cmds[Len(cmds)].id = ref

\* Stack::push: the command becomes the top entry and the modifiable one
push(cmds, cmd) == Append(cmds, cmd)

\* CentroidMover::modifyValue: replaces the target value of the command
modifyValue(cmds, id, value) ==
    [i \in 1..Len(cmds) |-> IF cmds[i].id = id THEN [cmds[i] EXCEPT !.to = value]
                                               ELSE cmds[i]]

----------------------------------------------------------------------------
(* CentroidMode::pushEventTarget *)

Min(S) == CHOOSE x \in S : \A y \in S : x <= y

\* iteration of a key map: ascending key order
RECURSIVE MapKeys(_)
MapKeys(S) == IF S = {} THEN << >> ELSE <<Min(S)>> \o MapKeys(S \ {Min(S)})

\* aEvent.pushTarget(entity, type, frame) for every frame of one map;
\* entity 0 is the target node, entity i its i-th child
TargetsOf(entity, type, S) ==
    [i \in 1..Cardinality(S) |-> <<entity, type, MapKeys(S)[i]>>]

RECURSIVE ChildTargets(_, _)
ChildTargets(children, i) ==
    IF i > Len(children) THEN << >>
    ELSE TargetsOf(i, "SRT", children[i]) \o ChildTargets(children, i + 1)

leafMapUnshared(aTarget) == aTarget.image \ aTarget.srt

leafMapSRT(aTarget) == aTarget.srt

\* the map read by the branch taken when the node cannot hold children
leafMap(aTarget) == aTarget.image

pushEventTarget(aTarget) ==
    TargetsOf(0, "SRT", aTarget.srt)
    \o (IF aTarget.canHoldChild
        THEN ChildTargets(aTarget.children, 1)
        ELSE TargetsOf(0, "SRT", leafMap(aTarget)))

----------------------------------------------------------------------------
(* CentroidMode::moveCentroid *)

clampCenterXOnly(aNewCenter) ==
    << xc_clamp(aNewCenter[1], transMin, transMax), aNewCenter[2] >>

\* the clamping of the new center on both axes
clampCenter(aNewCenter) ==
    << xc_clamp(aNewCenter[1], transMin, transMax),
       xc_clamp(aNewCenter[2], transMin, transMax) >>

canMergeNever(ref, cmds, modifiable) == FALSE

canMergeUnchecked(ref, cmds, modifiable) == ref # Null

\* the condition of the merge branch
canMerge(ref, cmds, modifiable) == ref # Null /\ isModifiable(cmds, modifiable, ref)

CentroidMoverFromLast(id, base, newCenter) ==
    Command(id, "CentroidMover",
            IF gesture.pushes > 0 THEN gesture.lastTarget ELSE base, newCenter)

CentroidMoverFromTarget(id, base, newCenter) ==
    Command(id, "CentroidMover", newCenter, newCenter)

\* new CentroidMover(mTarget, mBaseCenter, newCenter)
CentroidMover(id, base, newCenter) == Command(id, "CentroidMover", base, newCenter)

mergeCallsTwice(ref, newCenter, targets) ==
    << <<"modifyValue", ref, newCenter>>,
       <<"onTimeLineModified", "ChangeKeyValue", targets, FALSE>>,
       <<"onTimeLineModified", "ChangeKeyValue", targets, FALSE>>,
       <<"onNodeAttributeModified", FALSE>> >>

\* the calls of the merge branch, in order
mergeCalls(ref, newCenter, targets) ==
    << <<"modifyValue", ref, newCenter>>,
       <<"onTimeLineModified", "ChangeKeyValue", targets, FALSE>>,
       <<"onNodeAttributeModified", FALSE>> >>

macroCallsPushFirst(id, base, newCenter, targets) ==
    << <<"ScopedMacro", "move centroid">>,
       <<"new", id, base, newCenter>>,
       <<"push", id>>,
       <<"grabListener", "ChangeKeyValue", targets>>,
       <<"grabListener", "AttributeNotifier">> >>

\* the calls of the branch that opens a "move centroid" macro, in order
macroCalls(id, base, newCenter, targets) ==
    << <<"ScopedMacro", "move centroid">>,
       <<"grabListener", "ChangeKeyValue", targets>>,
       <<"grabListener", "AttributeNotifier">>,
       <<"new", id, base, newCenter>>,
       <<"push", id>> >>

\* The result of moveCentroid in the current state: the new command
\* reference and stack, and the calls it made, in order.
moveCentroid(aNewCenter) ==
    LET newCenter == clampCenter(aNewCenter)
    IN  IF canMerge(mCommandRef, cmdStack, modifiableCmd)
        THEN [ ref        |-> mCommandRef,
               cmds       |-> modifyValue(cmdStack, mCommandRef, newCenter),
               modifiable |-> modifiableCmd,
               redo       |-> redoIds,
               next       |-> nextId,
               trace      |-> mergeCalls(mCommandRef, newCenter, pushEventTarget(node)) ]
        ELSE [ ref        |-> nextId,
               cmds       |-> push(cmdStack, CentroidMover(nextId, mBaseCenter, newCenter)),
               modifiable |-> nextId,
               redo       |-> {},
               next       |-> nextId + 1,
               trace      |-> macroCalls(nextId, mBaseCenter, newCenter,
                                         pushEventTarget(node)) ]

----------------------------------------------------------------------------
(* History of the calls since the latest press *)

NoGesture ==
    [ phase |-> "none", focused |-> FALSE, accepted |-> FALSE, dragged |-> FALSE,
      restart |-> FALSE, applied |-> FALSE, pushes |-> 0, interleaved |-> FALSE,
      cmd |-> Null,
      pressLocal |-> Origin, lastTarget |-> Origin, stackAtPress |-> << >> ]

Open(g) == g.phase \in {"pressed", "dragging"}

\* a gesture is followed past its first drag when its press was on the handle
Followed(g) == Open(g) /\ g.focused

----------------------------------------------------------------------------
(* CentroidMode::updateCursor *)

pressAcceptedAnyMatrix(focusing, hasWorldInv) == focusing

pressAcceptedUnfocused(focusing, hasWorldInv) == hasWorldInv

\* the condition under which a press starts a drag
pressAccepted(focusing, hasWorldInv) == focusing /\ hasWorldInv

startDragKeepBase(center, curPos, worldInvMtx) ==
    [ moving     |-> TRUE,
      baseVec    |-> mBaseVec,
      baseCenter |-> mBaseCenter,
      ref        |-> Null ]

startDragKeepRef(center, curPos, worldInvMtx) ==
    [ moving     |-> TRUE,
      baseVec    |-> VSub(center, curPos),
      baseCenter |-> MapVec(worldInvMtx, center),
      ref        |-> mCommandRef ]

\* the assignments of an accepted press
startDrag(center, curPos, worldInvMtx) ==
    [ moving     |-> TRUE,
      baseVec    |-> VSub(center, curPos),
      baseCenter |-> MapVec(worldInvMtx, center),
      ref        |-> Null ]

dragAppliedNotMoving(moving, hasWorldInv) == hasWorldInv

dragAppliedAnyMatrix(moving, hasWorldInv) == moving

\* the condition under which a drag moves the centroid
dragApplied(moving, hasWorldInv) == moving /\ hasWorldInv

\* the local position a drag asks for: the grab offset is kept
dragTarget(curPos, baseVec, worldInvMtx) == MapVec(worldInvMtx, VAdd(curPos, baseVec))

endDragKeepRef(moving, ref) == [moving |-> FALSE, ref |-> ref]

endDragKeepMoving(moving, ref) == [moving |-> moving, ref |-> Null]

\* the assignments of a release
endDrag(moving, ref) == [moving |-> FALSE, ref |-> Null]

focusChangedIsFocus(prevFocus, focusing) == focusing

\* the contribution of the focus flag to the return value
focusChanged(prevFocus, focusing) == prevFocus # focusing

eventChangedIsMod(mod) == mod

\* the return value of a call that carries an event
eventChanged(mod) == TRUE

updateCursor(cam, curPos, ev) ==
    LET worldMtx == MatMul(keyOwner.mtx, keyOwner.locSRMtx)
        inv      == inverted(worldMtx)
        hasWorldInv == inv.ok
        worldInvMtx == inv.mtx
        center   == getWorldCentroidPos(keyOwner)
        prevFocus == mFocusing
        focusing == withinCrossRadius(cam, center, curPos)
        mod      == focusChanged(prevFocus, focusing)
    IN
    /\ mFocusing' = focusing
    /\ idle' = IF ev = NoEvent
               THEN [ valid |-> TRUE, cam |-> cam, pos |-> curPos, ko |-> keyOwner,
                      again |-> /\ idle.valid
                                /\ idle.cam = cam
                                /\ idle.pos = curPos
                                /\ idle.ko = keyOwner ]
               ELSE NoIdle
    /\ UNCHANGED node
    /\ IF ev.press THEN
          /\ IF pressAccepted(focusing, hasWorldInv)
             THEN LET d == startDrag(center, curPos, worldInvMtx)
                  IN  /\ mMoving' = d.moving
                      /\ mBaseVec' = d.baseVec
                      /\ mBaseCenter' = d.baseCenter
                      /\ mCommandRef' = d.ref
             ELSE UNCHANGED <<mMoving, mBaseVec, mBaseCenter, mCommandRef>>
          /\ UNCHANGED <<stackVars, keyOwner>>
          /\ out' = Called(cam, curPos, ev, eventChanged(mod), << >>)
          /\ gesture' = [ NoGesture EXCEPT
                            !.phase = "pressed",
                            !.focused = focusing,
                            !.accepted = focusing /\ hasWorldInv,
                            !.restart = mMoving,
                            !.pressLocal = IF focusing /\ hasWorldInv
                                           THEN MapVec(worldInvMtx, center) ELSE Origin,
                            !.stackAtPress = cmdStack ]
       ELSE IF ev.drag THEN
          IF dragApplied(mMoving, hasWorldInv)
          THEN LET newLocalCenter == dragTarget(curPos, mBaseVec, worldInvMtx)
                   r == moveCentroid(newLocalCenter)
               IN  /\ r.next <= MaxCmds + 1
                   /\ mCommandRef' = r.ref
                   /\ cmdStack' = r.cmds
                   /\ modifiableCmd' = r.modifiable
                   /\ redoIds' = r.redo
                   /\ nextId' = r.next
                   \* mKeyOwner.updatePosture: the posture is derived again
                   /\ keyOwner' \in KeyOwnerStates
                   /\ out' = Called(cam, curPos, ev, eventChanged(mod),
                                    Append(r.trace, <<"updatePosture">>))
                   /\ UNCHANGED <<mMoving, mBaseVec, mBaseCenter>>
                   /\ gesture' =
                        IF Followed(gesture)
                        THEN [ gesture EXCEPT
                                 !.phase = "dragging",
                                 !.dragged = TRUE,
                                 !.stackAtPress = << >>,
                                 !.applied = TRUE,
                                 !.pushes = IF r.next # nextId THEN @ + 1 ELSE @,
                                 !.cmd = r.ref,
                                 !.lastTarget =
                                    << xc_clamp(newLocalCenter[1], transMin, transMax),
                                       xc_clamp(newLocalCenter[2], transMin, transMax) >> ]
                        ELSE NoGesture
          ELSE /\ UNCHANGED <<mMoving, mBaseVec, mBaseCenter, mCommandRef>>
               /\ UNCHANGED <<stackVars, keyOwner>>
               /\ out' = Called(cam, curPos, ev, eventChanged(mod), << >>)
               /\ gesture' = IF Followed(gesture)
                             THEN [gesture EXCEPT !.phase = "dragging", !.dragged = TRUE,
                                                  !.stackAtPress = << >>]
                             ELSE NoGesture
       ELSE IF ev.release THEN
          /\ LET d == endDrag(mMoving, mCommandRef)
             IN  /\ mCommandRef' = d.ref
                 /\ mMoving' = d.moving
          /\ UNCHANGED <<mBaseVec, mBaseCenter, stackVars, keyOwner>>
          /\ out' = Called(cam, curPos, ev, eventChanged(mod), << >>)
          /\ gesture' = IF Open(gesture) THEN [gesture EXCEPT !.phase = "released"]
                                         ELSE NoGesture
       ELSE
          /\ UNCHANGED <<mMoving, mBaseVec, mBaseCenter, mCommandRef>>
          /\ UNCHANGED <<stackVars, keyOwner>>
          /\ out' = Called(cam, curPos, ev, mod, << >>)
          /\ gesture' = NoGesture

UpdateCursor ==
    \E view \in Views, ev \in CursorEvents : updateCursor(view[1], view[2], ev)

----------------------------------------------------------------------------
(* The rest of the editor *)

\* another edit is pushed onto the command stack
ExternalPush ==
    /\ nextId <= MaxCmds
    /\ cmdStack' = push(cmdStack, Command(nextId, "other", Origin, Origin))
    /\ modifiableCmd' = nextId
    /\ redoIds' = {}
    /\ nextId' = nextId + 1
    /\ gesture' = IF Open(gesture) THEN [gesture EXCEPT !.interleaved = TRUE]
                                   ELSE NoGesture
    /\ out' = NoOut
    /\ UNCHANGED <<manipVars, keyOwner, node, idle>>

\* undo: the top entry leaves the stack for the redo list
ExternalUndo ==
    /\ Len(cmdStack) > 0
    /\ cmdStack' = SubSeq(cmdStack, 1, Len(cmdStack) - 1)
    /\ redoIds' = redoIds \cup {cmdStack[Len(cmdStack)].id}
    /\ modifiableCmd' = Null
    /\ gesture' = IF Open(gesture) THEN [gesture EXCEPT !.interleaved = TRUE]
                                   ELSE NoGesture
    /\ out' = NoOut
    /\ UNCHANGED <<manipVars, keyOwner, node, nextId, idle>>

\* the posture changes between two calls (the time line moves, a key is edited)
PostureChange ==
    /\ keyOwner' \in KeyOwnerStates \ {keyOwner}
    /\ out' = NoOut
    /\ UNCHANGED <<manipVars, node, stackVars, idle, gesture>>

----------------------------------------------------------------------------
(* Specification *)

Init ==
    /\ mFocusing = FALSE
    /\ mMoving = FALSE
    /\ mBaseVec = Origin
    /\ mBaseCenter = Origin
    /\ mCommandRef = Null
    /\ keyOwner \in KeyOwnerStates
    /\ node = TargetNode
    /\ cmdStack = << >>
    /\ modifiableCmd = Null
    /\ redoIds = {}
    /\ nextId = 1
    /\ idle = NoIdle
    /\ out = NoOut
    /\ gesture = NoGesture

Next ==
    \/ UpdateCursor
    \/ ExternalPush
    \/ ExternalUndo
    \/ PostureChange

Spec == Init /\ [][Next]_vars

----------------------------------------------------------------------------
(* Event targeting on its own: pushEventTarget over a range of nodes *)

\* key frames a map may hold: 0 .. MaxFrame
MaxFrame == 2

KeyMaps == SUBSET (0..MaxFrame)

ChildLists == { << >> } \cup { <<a>> : a \in KeyMaps } \cup { <<a, b>> : a, b \in {{}, {0, 1, 2}} }

NodeShapes ==
    { [canHoldChild |-> TRUE, srt |-> m, image |-> i, children |-> c] :
        m \in KeyMaps, i \in {{}, {1}}, c \in ChildLists }
    \cup
    { [canHoldChild |-> FALSE, srt |-> m, image |-> i, children |-> << >>] :
        m \in KeyMaps, i \in KeyMaps }

InitTargets ==
    /\ mFocusing = FALSE
    /\ mMoving = FALSE
    /\ mBaseVec = Origin
    /\ mBaseCenter = Origin
    /\ mCommandRef = Null
    /\ keyOwner = [mtx |-> Identity, locSRMtx |-> Identity, locMtx |-> Identity]
    /\ node \in NodeShapes
    /\ cmdStack = << >>
    /\ modifiableCmd = Null
    /\ redoIds = {}
    /\ nextId = 1
    /\ idle = NoIdle
    /\ out = NoOut
    /\ gesture = NoGesture

\* TimeLineEvent event; pushEventTarget(mTarget, event);
EnumerateTargets ==
    /\ out' = Called(1, Origin, NoEvent, FALSE,
                      << <<"pushEventTarget", pushEventTarget(node)>> >>)
    /\ UNCHANGED <<manipVars, keyOwner, node, stackVars, idle, gesture>>

NextTargets == EnumerateTargets

SpecTargets == InitTargets /\ [][NextTargets]_vars

----------------------------------------------------------------------------
(* Properties *)

\* the positions in the trace of a call at which it made the call named op
EventsOf(trace, op) == { i \in 1..Len(trace) : trace[i][1] = op }

InRange(v) ==
    /\ transMin <= v[1] /\ v[1] <= transMax
    /\ transMin <= v[2] /\ v[2] <= transMax

worldInvertible == inverted(MatMul(keyOwner.mtx, keyOwner.locSRMtx)).ok

CommandOf(cmds, id) == cmds[CHOOSE i \in 1..Len(cmds) : cmds[i].id = id]

\* C1 as stated: a gesture of a press while focused, one or more drags and a
\* release pushes exactly one command.
C1_OneCommandPerFocusedGesture ==
    (gesture.phase = "released" /\ gesture.focused /\ gesture.dragged)
        => gesture.pushes = 1

\* C1 amended: a gesture whose press was accepted (focused, world matrix
\* invertible), of which at least one drag was applied, and during which
\* nobody else operated on the command stack, pushes exactly one command.
C1_OneCommandPerAppliedGesture ==
    (/\ gesture.phase = "released"
     /\ gesture.accepted
     /\ gesture.applied
     /\ ~gesture.interleaved)
        => gesture.pushes = 1

C1_Witness ==
    /\ gesture.phase = "released"
    /\ gesture.accepted
    /\ gesture.applied
    /\ ~gesture.interleaved
    /\ gesture.pushes = 1
    /\ OnStack(cmdStack, gesture.cmd)

\* C2: modifyValue is only applied to a command the stack reports modifiable
\* at that moment, and an applied drag that finds the active command no longer
\* modifiable pushes a new command instead of modifying the stale one.
C2_NeverModifiesStale ==
    [][ /\ \A i \in EventsOf(out'.trace, "modifyValue") :
              isModifiable(cmdStack, modifiableCmd, out'.trace[i][2])
        /\ (/\ mMoving
            /\ mCommandRef # Null
            /\ ~isModifiable(cmdStack, modifiableCmd, mCommandRef)
            /\ EventsOf(out'.trace, "updatePosture") # {})
              => /\ EventsOf(out'.trace, "modifyValue") = {}
                 /\ Cardinality(EventsOf(out'.trace, "push")) = 1
                 /\ mCommandRef' # mCommandRef
                 /\ Len(cmdStack') = Len(cmdStack) + 1
                 /\ cmdStack'[Len(cmdStack')].id = mCommandRef'
                 /\ SubSeq(cmdStack', 1, Len(cmdStack)) = cmdStack
      ]_vars

C2_Witness ==
    /\ gesture.pushes = 2
    /\ gesture.interleaved
    /\ out.called
    /\ EventsOf(out.trace, "push") # {}
    /\ EventsOf(out.trace, "modifyValue") = {}

\* C3 as stated: every value written into a centroid command, at construction
\* and through modifyValue, lies within [transMin, transMax] on both axes.
C3_EveryValueInRange ==
    /\ \A i \in EventsOf(out.trace, "new") :
          InRange(out.trace[i][3]) /\ InRange(out.trace[i][4])
    /\ \A i \in EventsOf(out.trace, "modifyValue") : InRange(out.trace[i][3])

\* C3 amended: every new center written into a centroid command, the target
\* value at construction and the value passed to modifyValue, lies within
\* [transMin, transMax] on both axes; the "from" value passed at construction
\* is mBaseCenter as captured at the press, which is not clamped.
C3_EveryTargetInRange ==
    /\ \A i \in EventsOf(out.trace, "new") :
          InRange(out.trace[i][4]) /\ out.trace[i][3] = mBaseCenter
    /\ \A i \in EventsOf(out.trace, "modifyValue") : InRange(out.trace[i][3])
    /\ \A i \in 1..Len(cmdStack) :
          cmdStack[i].kind = "CentroidMover" => InRange(cmdStack[i].to)

C3_Witness ==
    /\ \E i \in EventsOf(out.trace, "modifyValue") :
          out.trace[i][3] = <<transMax, transMin>>
    /\ \E i \in 1..Len(cmdStack) :
          /\ cmdStack[i].to = <<transMax, transMin>>
          /\ ~InRange(cmdStack[i].from)

\* C4: after a completed gesture (accepted press, one or more applied drags,
\* release) the command of the gesture records the local handle position at
\* the press as its "from" value and the clamped local position of the last
\* applied drag as its "to" value.
C4_CommandRecordsFromAndTo ==
    (/\ gesture.phase = "released"
     /\ gesture.accepted
     /\ gesture.applied
     /\ OnStack(cmdStack, gesture.cmd))
        => /\ CommandOf(cmdStack, gesture.cmd).from = gesture.pressLocal
           /\ CommandOf(cmdStack, gesture.cmd).to = gesture.lastTarget

C4_Witness ==
    /\ gesture.phase = "released"
    /\ gesture.accepted
    /\ gesture.applied
    /\ gesture.pushes = 1
    /\ OnStack(cmdStack, gesture.cmd)
    /\ CommandOf(cmdStack, gesture.cmd).from = gesture.pressLocal
    /\ CommandOf(cmdStack, gesture.cmd).to = gesture.lastTarget
    /\ gesture.pressLocal # gesture.lastTarget
    /\ gesture.lastTarget = <<transMax, transMin>>

RefSound(moving, ref, cmds, modifiable, redo) ==
    moving => \/ ref = Null
              \/ Live(cmds, redo, ref) /\ isModifiable(cmds, modifiable, ref)

\* C5 as stated: in every reachable state, moving implies that the command
\* reference is null or refers to a live command the stack reports modifiable.
C5_MovingRefModifiable ==
    RefSound(mMoving, mCommandRef, cmdStack, modifiableCmd, redoIds)

\* C5 amended: moving implies that the command reference is null or refers to
\* a live, modifiable command in every state reached by an accepted press or
\* an applied drag, and no updateCursor call makes it false; a push or an undo
\* by another party can leave the reference stale while moving stays true.
C5_MovingRefModifiableAfterCalls ==
    [][ out'.called =>
          /\ RefSound(mMoving, mCommandRef, cmdStack, modifiableCmd, redoIds)
                => RefSound(mMoving', mCommandRef', cmdStack', modifiableCmd', redoIds')
          /\ (\/ gesture'.phase = "pressed" /\ gesture'.accepted
              \/ EventsOf(out'.trace, "updatePosture") # {})
                => RefSound(mMoving', mCommandRef', cmdStack', modifiableCmd', redoIds')
      ]_vars

C5_Witness ==
    /\ mMoving
    /\ mCommandRef # Null
    /\ Live(cmdStack, redoIds, mCommandRef)
    /\ isModifiable(cmdStack, modifiableCmd, mCommandRef)
    /\ gesture.interleaved
    /\ out.called
    /\ EventsOf(out.trace, "push") # {}

\* C6: a press followed by a release with no drag call in between pushes no
\* command (the stack after the release is the stack before the press unless
\* somebody else operated on it), and moving is false after the release.
C6_ReleaseWithoutDrag ==
    (gesture.phase = "released" /\ ~gesture.dragged)
        => /\ gesture.pushes = 0
           /\ ~mMoving
           /\ out.called => out.trace = << >>
           /\ ~gesture.interleaved => cmdStack = gesture.stackAtPress

C6_Witness ==
    /\ gesture.phase = "released"
    /\ ~gesture.dragged
    /\ gesture.accepted
    /\ ~gesture.interleaved
    /\ out.called
    /\ Len(cmdStack) > 0
    /\ cmdStack = gesture.stackAtPress
    /\ ~mMoving

\* C7 as stated: a call with a left-press while the cursor is outside the
\* focus radius returns true and moving is false after the call.
C7_UnfocusedPressMovingFalse ==
    (out.called /\ gesture.phase = "pressed" /\ ~gesture.focused)
        => out.ret /\ ~mMoving

\* C7 amended: a call with a left-press while the cursor is outside the focus
\* radius returns true and leaves moving as it was: false when it was false,
\* and still true when the press arrives while a drag is in progress.
C7_UnfocusedPressKeepsMoving ==
    [][ (out'.called /\ gesture'.phase = "pressed" /\ ~gesture'.focused)
          => out'.ret /\ mMoving' = mMoving ]_vars

C7_Witness ==
    /\ out.called
    /\ gesture.phase = "pressed"
    /\ ~gesture.focused
    /\ out.ret
    /\ ~mMoving
    /\ worldInvertible

Quiet ==
    /\ ~out'.ret
    /\ out'.trace = << >>
    /\ UNCHANGED <<mFocusing, mMoving, mBaseVec, mBaseCenter, mCommandRef>>
    /\ UNCHANGED <<stackVars, keyOwner>>

\* C8 as stated: a call without an event, at the cursor position of the
\* previous call without an event and with the same matrices, returns false
\* and writes nothing.
C8_RepeatedCallIsQuiet ==
    [][ (/\ out'.called
         /\ idle.valid
         /\ idle'.valid
         /\ idle'.pos = idle.pos
         /\ idle'.ko = idle.ko) => Quiet ]_vars

\* C8 amended: a call without an event, at the cursor position and with the
\* camera of the previous call without an event and with the same matrices,
\* returns false and writes nothing.
C8_RepeatedCallSameCameraIsQuiet ==
    [][ (out'.called /\ idle'.again) => Quiet ]_vars

C8_Witness ==
    /\ out.called
    /\ idle.again
    /\ ~out.ret
    /\ mFocusing
    /\ mMoving

NumTargets == Len(out.trace[1][2])

\* C9 as stated: 9 targets for a node that can hold children and has 2
\* children, the node and each child with 3 transform keys; 3 targets for a
\* leaf with 3 transform keys.
C9_NineAndThreeTargets ==
    out.called =>
       /\ (/\ node.canHoldChild
           /\ Cardinality(node.srt) = 3
           /\ Len(node.children) = 2
           /\ \A c \in 1..Len(node.children) : Cardinality(node.children[c]) = 3)
             => NumTargets = 9
       /\ (~node.canHoldChild /\ Cardinality(node.srt) = 3) => NumTargets = 3

\* C9 amended: 9 targets for that node with children; for a leaf with 3
\* transform keys, 3 targets plus one for every image key of the leaf, so
\* exactly 3 only when the leaf has no image key.
C9_NineAndThreePlusImageTargets ==
    out.called =>
       /\ (/\ node.canHoldChild
           /\ Cardinality(node.srt) = 3
           /\ Len(node.children) = 2
           /\ \A c \in 1..Len(node.children) : Cardinality(node.children[c]) = 3)
             => NumTargets = 9
       /\ (~node.canHoldChild /\ Cardinality(node.srt) = 3)
             => NumTargets = 3 + Cardinality(node.image)

C9_Witness ==
    /\ out.called
    /\ ~node.canHoldChild
    /\ Cardinality(node.srt) = 3
    /\ Cardinality(node.image) = 2
    /\ NumTargets = 5

\* C10: in a call in which the world matrix is not invertible, a press does
\* not start a drag and a drag performs no move (nothing is pushed, modified
\* or notified, updatePosture is not called), while focusing is still computed
\* from the cursor distance and the call returns true.
C10_SingularMatrixSkipsPositionMath ==
    [][ (/\ out'.called
         /\ out'.ev.press \/ out'.ev.drag
         /\ ~worldInvertible)
           => /\ UNCHANGED <<mMoving, mBaseVec, mBaseCenter, mCommandRef>>
              /\ UNCHANGED <<stackVars, keyOwner>>
              /\ out'.trace = << >>
              /\ out'.ret
              /\ mFocusing' =
                   (out'.cam * out'.cam
                      * LengthSq(VSub(MapVec(keyOwner.mtx, MapVec(keyOwner.locMtx, Origin)),
                                      out'.pos))
                    <= kCrossRadius * kCrossRadius)
      ]_vars

C10_Witness ==
    /\ out.called
    /\ gesture.phase = "dragging"
    /\ gesture.accepted
    /\ ~gesture.applied
    /\ ~worldInvertible
    /\ mMoving
    /\ mFocusing
    /\ out.ret
    /\ out.trace = << >>

\* the call made by this step carried one of the three events
carriesEvent == out'.ev.press \/ out'.ev.drag \/ out'.ev.release

\* C11: updateCursor returns true if and only if, in that call, the value of
\* focusing changed or the cursor emitted a left-press, left-drag or
\* left-release event, whether or not the event changed anything else.
C11_ReturnsTrueIffFocusOrEvent ==
    [][ out'.called => (out'.ret <=> (mFocusing' # mFocusing \/ carriesEvent)) ]_vars

C11_Witness ==
    /\ out.called
    /\ out.ev.drag
    /\ out.ret
    /\ out.trace = << >>
    /\ ~mMoving
    /\ ~mFocusing
    /\ gesture = NoGesture

\* the square of the screen-space distance between the cursor of the latest
\* call and the handle of the posture ko
ScreenDistSq(ko, call) ==
    call.cam * call.cam
      * LengthSq(VSub(MapVec(ko.mtx, MapVec(ko.locMtx, Origin)), call.pos))

\* C12 as stated: after every call, focusing is true exactly when the
\* screen-space distance between the cursor and the handle's world position
\* is at most kCrossRadius.
C12_FocusMatchesHandleAfterCall ==
    out.called => (mFocusing <=> ScreenDistSq(keyOwner, out) <= kCrossRadius * kCrossRadius)

\* C12 amended: after every call, in every interaction state, focusing is true
\* exactly when the screen-space distance between the cursor and the handle's
\* world position at the start of that call is at most kCrossRadius (true at
\* exactly the boundary); the handle is the one of the posture after the call
\* too in every call but an applied drag, which re-derives the posture after
\* focusing was computed.
C12_FocusMatchesHandleAtCallStart ==
    [][ out'.called =>
          /\ mFocusing' <=> ScreenDistSq(keyOwner, out') <= kCrossRadius * kCrossRadius
          /\ EventsOf(out'.trace, "updatePosture") = {}
               => (mFocusing' <=> ScreenDistSq(keyOwner', out') <= kCrossRadius * kCrossRadius)
      ]_vars

C12_Witness ==
    /\ out.called
    /\ out.ev.drag
    /\ mMoving
    /\ gesture.phase = "dragging"
    /\ mFocusing
    /\ ScreenDistSq(keyOwner, out) = kCrossRadius * kCrossRadius

\* the call made by this step applied a drag: it ran moveCentroid
ranMoveCentroid == out'.called /\ EventsOf(out'.trace, "updatePosture") # {}

\* the clamped local position the drag of this step asks for
requestedCenter ==
    LET worldInv == inverted(MatMul(keyOwner.mtx, keyOwner.locSRMtx)).mtx
        asked    == MapVec(worldInv, VAdd(out'.pos, mBaseVec))
    IN  << xc_clamp(asked[1], transMin, transMax), xc_clamp(asked[2], transMin, transMax) >>

\* the active command is one the stack reports modifiable
activeModifiable == mCommandRef # Null /\ isModifiable(cmdStack, modifiableCmd, mCommandRef)

Count(trace, op) == Cardinality(EventsOf(trace, op))

\* C13: when moveCentroid runs with an active command that the stack reports
\* modifiable, it replaces that command's target value in place and emits a
\* single "key value changed" notification over the pushEventTarget target
\* set: no command is pushed, no macro is opened, no listener is registered,
\* and the command reference is unchanged.
C13_MergeReplacesInPlace ==
    [][ (ranMoveCentroid /\ activeModifiable) =>
          /\ Count(out'.trace, "modifyValue") = 1
          /\ \A i \in EventsOf(out'.trace, "modifyValue") :
                out'.trace[i] = <<"modifyValue", mCommandRef, requestedCenter>>
          /\ Count(out'.trace, "onTimeLineModified") = 1
          /\ \A i \in EventsOf(out'.trace, "onTimeLineModified") :
                out'.trace[i] = <<"onTimeLineModified", "ChangeKeyValue",
                                  pushEventTarget(node), FALSE>>
          /\ Count(out'.trace, "push") = 0
          /\ Count(out'.trace, "new") = 0
          /\ Count(out'.trace, "ScopedMacro") = 0
          /\ Count(out'.trace, "grabListener") = 0
          /\ mCommandRef' = mCommandRef
          /\ cmdStack' = [cmdStack EXCEPT ![Len(cmdStack)].to = requestedCenter]
          /\ UNCHANGED <<modifiableCmd, redoIds, nextId>>
      ]_vars

C13_Witness ==
    /\ out.called
    /\ Count(out.trace, "modifyValue") = 1
    /\ Count(out.trace, "onTimeLineModified") = 1
    /\ Count(out.trace, "push") = 0
    /\ gesture.applied
    /\ gesture.pushes = 1
    /\ mCommandRef # Null
    /\ OnStack(cmdStack, mCommandRef)
    /\ CommandOf(cmdStack, mCommandRef).to = out.trace[1][3]
    /\ CommandOf(cmdStack, mCommandRef).to # CommandOf(cmdStack, mCommandRef).from

\* C14: when moveCentroid runs with no active command, or with one the stack
\* no longer reports modifiable, it opens exactly one "move centroid" macro,
\* registers exactly two listeners on it (a "key value changed" notifier over
\* the pushEventTarget target set and an attribute notifier for the node)
\* before the command is pushed, pushes exactly one new command built from
\* (node, mBaseCenter, clamped new center), and afterwards the command
\* reference refers to that command.
C14_PushOpensOneMacro ==
    [][ (ranMoveCentroid /\ ~activeModifiable) =>
          /\ Count(out'.trace, "ScopedMacro") = 1
          /\ out'.trace[1] = <<"ScopedMacro", "move centroid">>
          /\ Count(out'.trace, "grabListener") = 2
          /\ \E i, j \in EventsOf(out'.trace, "grabListener") :
                /\ out'.trace[i] = <<"grabListener", "ChangeKeyValue", pushEventTarget(node)>>
                /\ out'.trace[j] = <<"grabListener", "AttributeNotifier">>
          /\ Count(out'.trace, "new") = 1
          /\ Count(out'.trace, "push") = 1
          /\ \A p \in EventsOf(out'.trace, "push") :
                /\ \A l \in EventsOf(out'.trace, "grabListener") : 1 < l /\ l < p
                /\ \A n \in EventsOf(out'.trace, "new") :
                      /\ n < p
                      /\ out'.trace[n] = <<"new", out'.trace[p][2], mBaseCenter, requestedCenter>>
                /\ ~Live(cmdStack, redoIds, out'.trace[p][2])
                /\ mCommandRef' = out'.trace[p][2]
          /\ Count(out'.trace, "modifyValue") = 0
          /\ Count(out'.trace, "onTimeLineModified") = 0
          /\ cmdStack' = Append(cmdStack, [id |-> mCommandRef', kind |-> "CentroidMover",
                                           from |-> mBaseCenter, to |-> requestedCenter])
      ]_vars

C14_Witness ==
    /\ out.called
    /\ Count(out.trace, "push") = 1
    /\ Count(out.trace, "grabListener") = 2
    /\ gesture.pushes = 2
    /\ mCommandRef = cmdStack[Len(cmdStack)].id
    /\ cmdStack[Len(cmdStack)].from = mBaseCenter
    /\ cmdStack[Len(cmdStack)].to # mBaseCenter
    /\ isModifiable(cmdStack, modifiableCmd, mCommandRef)

\* C15: moving changes from false to true only in a call that carries a
\* left-press and in which focusing, as computed in that call, is true and
\* the world matrix is invertible; no drag, release or event-free call sets
\* moving to true.
C15_MovingStartsOnlyAtAcceptedPress ==
    [][ /\ (~mMoving /\ mMoving') =>
              /\ out'.called
              /\ out'.ev.press
              /\ mFocusing'
              /\ ScreenDistSq(keyOwner, out') <= kCrossRadius * kCrossRadius
              /\ worldInvertible
        /\ (out'.called /\ ~out'.ev.press /\ ~mMoving) => ~mMoving'
      ]_vars

C15_Witness ==
    /\ out.called
    /\ out.ev.press
    /\ mMoving
    /\ mFocusing
    /\ worldInvertible
    /\ gesture.phase = "pressed"
    /\ gesture.accepted
    /\ ~gesture.restart
    /\ mCommandRef = Null

\* C16: a call that carries a left-release always ends the gesture, from any
\* prior state and whether or not the world matrix is invertible: after the
\* call moving is false and the command reference is null, the call returns
\* true, and the command stack and the command referenced before the call
\* are not modified by it.
C16_ReleaseEndsGesture ==
    [][ (out'.called /\ out'.ev.release) =>
          /\ ~mMoving'
          /\ mCommandRef' = Null
          /\ out'.ret
          /\ out'.trace = << >>
          /\ UNCHANGED <<cmdStack, modifiableCmd, redoIds, nextId>>
          /\ UNCHANGED <<mBaseVec, mBaseCenter, keyOwner>>
      ]_vars

C16_Witness ==
    /\ out.called
    /\ out.ev.release
    /\ out.ret
    /\ ~worldInvertible
    /\ gesture.phase = "released"
    /\ gesture.applied
    /\ gesture.cmd # Null
    /\ isModifiable(cmdStack, modifiableCmd, gesture.cmd)
    /\ ~mMoving
    /\ mCommandRef = Null

\* the targets pushEventTarget added in the latest enumeration
Targets == out.trace[1][2]

\* how many times the target t occurs in the sequence of targets ts
Occurrences(ts, t) == Cardinality({ i \in 1..Len(ts) : ts[i] = t })

\* C17: for a node that cannot hold children, pushEventTarget adds one target
\* per transform key of the node and, in addition, one target per image key
\* of the node, each tagged with the transform-key kind: the number of targets
\* is the number of transform keys plus the number of image keys, and a key
\* present in both maps is added twice.
C17_LeafAddsTransformAndImageKeys ==
    (out.called /\ ~node.canHoldChild) =>
       /\ Len(Targets) = Cardinality(node.srt) + Cardinality(node.image)
       /\ \A i \in 1..Len(Targets) : Targets[i][1] = 0 /\ Targets[i][2] = "SRT"
       /\ \A k \in 0..MaxFrame :
             Occurrences(Targets, <<0, "SRT", k>>)
               = (IF k \in node.srt THEN 1 ELSE 0) + (IF k \in node.image THEN 1 ELSE 0)
       /\ \A i \in 1..Len(Targets) :
             IF i <= Cardinality(node.srt) THEN Targets[i][3] \in node.srt
                                           ELSE Targets[i][3] \in node.image

C17_Witness ==
    /\ out.called
    /\ ~node.canHoldChild
    /\ node.srt = {0, 1}
    /\ node.image = {1, 2}
    /\ Len(Targets) = 4
    /\ Occurrences(Targets, <<0, "SRT", 1>>) = 2

\* a command referenced by this step's call that was not referenced before
refAcquired == mCommandRef' # Null /\ mCommandRef' # mCommandRef

\* C18: a non-null command reference implies moving is true; the reference
\* becomes non-null only in an applied drag and is null after every accepted
\* press and every release, so it is never held while idle or merely focused.
C18_RefImpliesMoving ==
    /\ [](mCommandRef # Null => mMoving)
    /\ [][ /\ refAcquired => (ranMoveCentroid /\ out'.ev.drag /\ mMoving)
           /\ (out'.called /\ out'.ev.release) => mCommandRef' = Null
           /\ (out'.called /\ out'.ev.press /\ mFocusing' /\ worldInvertible)
                 => mCommandRef' = Null
           /\ (out'.called /\ ~mMoving) => mCommandRef' = Null
       ]_vars

C18_Witness ==
    /\ mCommandRef # Null
    /\ mMoving
    /\ ~mFocusing
    /\ ~out.called
    /\ ~isModifiable(cmdStack, modifiableCmd, mCommandRef)

\* the call made by this step carried a press while moving was already true
pressWhileMoving == out'.called /\ out'.ev.press /\ mMoving

\* C19: a left-press that arrives while moving is already true, with the
\* cursor focused and the world matrix invertible, restarts the gesture:
\* mBaseVec and mBaseCenter are recaptured and the command reference is set
\* to null, so the next applied drag pushes a command instead of merging; the
\* same press while not focused or with a singular matrix leaves moving true
\* and the command reference (and the captured vectors) unchanged.
C19_PressWhileMovingRestarts ==
    [][ /\ (pressWhileMoving /\ mFocusing' /\ worldInvertible) =>
              /\ mMoving'
              /\ mCommandRef' = Null
              /\ mBaseVec' = VSub(MapVec(keyOwner.mtx, MapVec(keyOwner.locMtx, Origin)),
                                  out'.pos)
              /\ mBaseCenter' =
                    MapVec(inverted(MatMul(keyOwner.mtx, keyOwner.locSRMtx)).mtx,
                           MapVec(keyOwner.mtx, MapVec(keyOwner.locMtx, Origin)))
        /\ (pressWhileMoving /\ ~(mFocusing' /\ worldInvertible)) =>
              /\ mMoving'
              /\ UNCHANGED <<mCommandRef, mBaseVec, mBaseCenter>>
        /\ (ranMoveCentroid /\ gesture.restart /\ gesture.accepted /\ ~gesture.applied) =>
              /\ Count(out'.trace, "push") = 1
              /\ Count(out'.trace, "modifyValue") = 0
              /\ mCommandRef' # Null
              /\ ~OnStack(cmdStack, mCommandRef')
              /\ cmdStack' = Append(cmdStack, cmdStack'[Len(cmdStack')])
              /\ cmdStack'[Len(cmdStack')].from = mBaseCenter
      ]_vars

C19_Witness ==
    /\ out.called
    /\ gesture.restart
    /\ gesture.accepted
    /\ gesture.applied
    /\ gesture.pushes = 1
    /\ ~gesture.interleaved
    /\ Count(out.trace, "push") = 1
    /\ Len(cmdStack) = 2
    /\ cmdStack[1].kind = "CentroidMover"
    /\ cmdStack[2].kind = "CentroidMover"
    /\ cmdStack[1].from # cmdStack[2].from
    /\ mCommandRef = cmdStack[2].id

\* the call made by this step constructed a command
constructed == { i \in 1..Len(out'.trace) : out'.trace[i][1] = "new" }

\* C20: every command the manipulator pushes between one accepted press and
\* the next has as its "from" value the mBaseCenter captured at that press:
\* mBaseCenter is written by accepted presses only, and every constructed
\* command takes it as "from"; a second command created in the same gesture
\* therefore has the press-time position as "from", not the position the
\* first command last wrote.
C20_FromIsPressTimeCenter ==
    [][ /\ mBaseCenter' # mBaseCenter =>
              (out'.called /\ out'.ev.press /\ mFocusing' /\ worldInvertible)
        /\ (out'.called /\ constructed # {}) =>
              /\ \A i \in constructed : out'.trace[i][3] = mBaseCenter
              /\ cmdStack'[Len(cmdStack')].id = mCommandRef'
              /\ cmdStack'[Len(cmdStack')].from = mBaseCenter
              /\ (Open(gesture) /\ gesture.accepted) =>
                    cmdStack'[Len(cmdStack')].from = gesture.pressLocal
      ]_vars

C20_Witness ==
    /\ out.called
    /\ gesture.accepted
    /\ gesture.pushes = 2
    /\ Count(out.trace, "new") = 1
    /\ mCommandRef # Null
    /\ OnStack(cmdStack, mCommandRef)
    /\ CommandOf(cmdStack, mCommandRef).from = gesture.pressLocal
    /\ CommandOf(cmdStack, mCommandRef).from = <<40, 0>>
    /\ CommandOf(cmdStack, mCommandRef).to # gesture.pressLocal

====
